---- MODULE Spec2Model ----
(***************************************************************************)
(* Dashboard state updaters of the CLI (ui/dashboard/updaters.rs).         *)
(*                                                                         *)
(* DashboardState::update() runs once per tick against the event history   *)
(* and the wall clock.  The model keeps the history as a sequence of       *)
(* events, the clock as a number of whole seconds, and one variable per    *)
(* field of DashboardState the updaters write.  Messages are the strings   *)
(* of the code; the substring tests, the "(<secs>)" parse and the "Task-"  *)
(* extraction are computed character by character.                         *)
(***************************************************************************)
EXTENDS Integers, Sequences, FiniteSets, TLC

\* ------------------------------------------------------------------ bounds
MaxTick == 3        \* update() cycles per behaviour
MaxClock == 6       \* seconds the clock may reach
MaxSignal == 3      \* events of the tracked kinds, per behaviour
MaxEvents == 23     \* events the history retains
MaxFetchEvents == 11 \* events the history retains, where the window is 10
MaxShortEvents == 7 \* events the history retains, where the window is 5
MaxRam == 2         \* peak values the resource sampler may report
MaxCommuteEvents == 2 \* events of the history the reordered updaters scan

\* ------------------------------------------------------- program constants
TaskWindow == 20
BackoffWindow == 20
TerminalWindow == 5
RequestWindow == 10
StateWindow == 10
FetchTimeoutSecs == 5
PointsPerSubmission == 300
TaskPrefixLen == 5
U64Max == "18446744073709551615"   \* u64::MAX, as its decimal digits

\* ----------------------------------------------------------------- options
None == <<>>
Some(x) == <<x>>
IsSome(o) == o # <<>>
Unwrap(o) == o[1]

\* ----------------------------------------------------------------- strings
\* str::find(pattern): 1-based index of the first occurrence, 0 when absent.
Find(s, p) ==
  LET hits == {i \in 1..(Len(s) - Len(p) + 1) : SubSeq(s, i, i + Len(p) - 1) = p}
  IN IF hits = {} THEN 0 ELSE CHOOSE i \in hits : \A j \in hits : i <= j

\* str::contains(pattern)
Contains(s, p) == Find(s, p) # 0

Digits == {"0", "1", "2", "3", "4", "5", "6", "7", "8", "9"}

DigitVal(c) ==
  CASE c = "0" -> 0 [] c = "1" -> 1 [] c = "2" -> 2 [] c = "3" -> 3
    [] c = "4" -> 4 [] c = "5" -> 5 [] c = "6" -> 6 [] c = "7" -> 7
    [] c = "8" -> 8 [] c = "9" -> 9

RECURSIVE DecimalValue(_)
DecimalValue(s) ==
  IF Len(s) = 0 THEN 0
  ELSE 10 * DecimalValue(SubSeq(s, 1, Len(s) - 1)) + DigitVal(SubSeq(s, Len(s), Len(s)))

\* Decimal digit strings of equal length compare as their values do.
RECURSIVE DigitsLeq(_, _)
DigitsLeq(a, b) ==
  IF Len(a) = 0 THEN TRUE
  ELSE LET x == DigitVal(SubSeq(a, 1, 1))
           y == DigitVal(SubSeq(b, 1, 1))
       IN IF x # y THEN x < y
          ELSE DigitsLeq(SubSeq(a, 2, Len(a)), SubSeq(b, 2, Len(b)))

\* Whether a digit string denotes a value within u64 (leading zeros dropped).
RECURSIVE FitsU64(_)
FitsU64(ds) ==
  IF Len(ds) > 1 /\ SubSeq(ds, 1, 1) = "0" THEN FitsU64(SubSeq(ds, 2, Len(ds)))
  ELSE \/ Len(ds) < Len(U64Max)
       \/ Len(ds) = Len(U64Max) /\ DigitsLeq(ds, U64Max)

\* str::parse::<u64>(): an optional leading '+', then one or more decimal
\* digits, the value within u64; anything else is Err (None here).
ParseU64(s) ==
  LET body == IF Len(s) > 0 /\ SubSeq(s, 1, 1) = "+" THEN SubSeq(s, 2, Len(s)) ELSE s
  IN IF /\ Len(body) > 0
        /\ \A i \in 1..Len(body) : SubSeq(body, i, i) \in Digits
        /\ FitsU64(body)
     THEN Some(DecimalValue(body))
     ELSE None

\* char::is_whitespace() over the characters the messages use.
IsWhitespace(c) == c \in {" ", "\t", "\n", "\r"}

\* A reading that takes a matching message it cannot parse for a wait of 0.
WaitSecsOrZero(msg) ==
  IF Contains(msg, "ready for next task")
  THEN LET start == Find(msg, "(")
           end == Find(msg, ")")
           parsed == IF start # 0 /\ end # 0 /\ start < end
                     THEN ParseU64(SubSeq(msg, start + 1, end - 1))
                     ELSE None
       IN IF IsSome(parsed) THEN parsed ELSE Some(0)
  ELSE None

\* The duration a "ready for next task (<secs>)" message declares
\* (update_task_fetch_info, the nested ifs of one loop iteration).
WaitSecs(msg) ==
  IF Contains(msg, "ready for next task")
  THEN LET start == Find(msg, "(")
           end == Find(msg, ")")
       IN IF start # 0 /\ end # 0 /\ start < end
          THEN ParseU64(SubSeq(msg, start + 1, end - 1))
          ELSE None
  ELSE None

\* The task identifier of a message (update_current_task, one iteration).
TaskId(msg) ==
  LET task_start == Find(msg, "Task-")
  IN IF task_start = 0 THEN None
     ELSE LET remaining == SubSeq(msg, task_start, Len(msg))
              ws == {i \in 1..Len(remaining) : IsWhitespace(SubSeq(remaining, i, i))}
          IN IF ws # {}
             THEN Some(SubSeq(remaining, 1, (CHOOSE i \in ws : \A j \in ws : i <= j) - 1))
             ELSE IF Len(remaining) > TaskPrefixLen THEN Some(remaining) ELSE None

\* ------------------------------------------------------------------ events
\* An Event of crate::events: worker, event_type, msg, prover_state.  The
\* Prover's id is dropped (the updaters match Worker::Prover(_)).
Ev(worker, event_type, msg, prover_state) ==
  [worker |-> worker, event_type |-> event_type, msg |-> msg, prover_state |-> prover_state]

\* The event source stamps an event when it appends it.
Stamp(e, n) ==
  [worker |-> e.worker, event_type |-> e.event_type, msg |-> e.msg,
   prover_state |-> e.prover_state, timestamp |-> n]

\* Events of the other pipeline stages that no updater reacts to.
Filler == Ev("ProofSubmitter", "Info", "Submitting proof for Task-9 ...", None)

\* The event the "unrecognized message" property appends.
Garbage(event_type) == Ev("TaskFetcher", event_type, "garbage", None)

RuntimePool ==
  { Ev("Prover", "Success", "Step 2 of 4: Proving task Task-7", None),
    Ev("Prover", "Success", "Step 3 of 4: Proof generated for task Task-7", None),
    Ev("Prover", "Error", "Step 2 of 4: Proving task Task-7 failed", None) }

TotalsPool ==
  { Ev("TaskFetcher", "Success", "Step 1 of 4: Got task Task-7", None),
    Ev("TaskFetcher", "Success", "Fetched Task-7 from orchestrator", None),
    Ev("TaskFetcher", "Success", "Fetch rate limited, retrying in 2s", None),
    Ev("ProofSubmitter", "Success", "Step 4 of 4: Proof submitted successfully", None) }

BackoffPool ==
  { Ev("TaskFetcher", "Info", "Waiting - ready for next task (2)", None),
    Ev("TaskFetcher", "Info", "Waiting - ready for next task (1)", None),
    Ev("TaskFetcher", "Info", "Waiting - ready for next task (soon)", None),
    Ev("Prover", "Info", "Prover ready for next task (3)", None) }

FetchPool ==
  { Ev("TaskFetcher", "Info", "Step 1 of 4: Requesting task...", None),
    Ev("TaskFetcher", "Success", "Step 1 of 4: Got task Task-7", None),
    Ev("TaskFetcher", "Success", "Fetched Task-7 from orchestrator", None),
    Ev("TaskFetcher", "Error", "Failed to fetch task: rate limited", None) }

MixedPool ==
  { Ev("TaskFetcher", "Success", "Task-7 done - ready for next task (2)", None),
    Ev("TaskFetcher", "Info", "Step 1 of 4: Requesting task...", None),
    Ev("Prover", "StateChange", "Proving Task-8", Some("Proving")),
    Garbage("Info") }

\* "ready for next task" messages, one well-formed and three that declare
\* no duration: text that is no number, no parentheses, ')' before '('.
MissPool ==
  { Ev("TaskFetcher", "Info", "Waiting - ready for next task (2)", None),
    Ev("TaskFetcher", "Info", "Waiting - ready for next task (soon)", None),
    Ev("TaskFetcher", "Info", "Waiting - ready for next task", None),
    Ev("TaskFetcher", "Info", "Retry )3( - ready for next task", None) }

\* Messages that name a task at their end or before a space, and messages
\* that hold the bare "Task-" prefix before a space or at their end.
TaskPool ==
  { Ev("Prover", "Success", "Step 2 of 4: Proving task Task-7", None),
    Ev("TaskFetcher", "Success", "Fetched Task-8 from orchestrator", None),
    Ev("Prover", "Info", "Waiting for Task- assignment", None),
    Ev("TaskFetcher", "Info", "No Task-", None) }

\* One event for each of the event-driven updaters, two for the runtime.
CommutePool ==
  { Ev("TaskFetcher", "Success", "Task-7 done - ready for next task (2)", None),
    Ev("TaskFetcher", "Info", "Step 1 of 4: Requesting task...", None),
    Ev("Prover", "StateChange", "Proving Task-8", Some("Proving")),
    Ev("Prover", "Success", "Step 2 of 4: Proving task Task-7", None),
    Ev("Prover", "Success", "Step 3 of 4: Proof generated for task Task-7", None) }

\* State changes with a payload, one without, and a payload on an event
\* that is no state change.
ProverPool ==
  { Ev("Prover", "StateChange", "Proving Task-8", Some("Proving")),
    Ev("Prover", "StateChange", "Waiting for the next task", Some("Waiting")),
    Ev("Prover", "StateChange", "State changed", None),
    Ev("Prover", "Info", "Submitting Task-8", Some("Submitting")) }

AllEvents == RuntimePool \cup TotalsPool \cup BackoffPool \cup FetchPool \cup MixedPool
               \cup MissPool \cup TaskPool \cup CommutePool \cup ProverPool
               \cup {Filler}
               \cup {Garbage(t) : t \in {"Success", "Error", "Info", "StateChange"}}

Texts == {e.msg : e \in AllEvents}

\* The substring tests of the updaters.
IsRateLimited(msg) == Contains(msg, "rate limited")
IsRetrying(msg) == Contains(msg, "retrying")
IsStep1(msg) == Contains(msg, "Step 1 of 4")
IsRequesting(msg) == Contains(msg, "Step 1 of 4: Requesting task...")
IsProvingStart(msg) == Contains(msg, "Step 2 of 4: Proving task")
IsProofGenerated(msg) == Contains(msg, "Step 3 of 4: Proof generated for task")
IsSubmitted(msg) == Contains(msg, "Step 4 of 4: Proof submitted successfully")

\* What the updaters read off a message text, evaluated once per text.
Parsed ==
  [m \in Texts |->
    [rate_limited |-> IsRateLimited(m), retrying |-> IsRetrying(m),
     step1 |-> IsStep1(m), requesting |-> IsRequesting(m),
     step2 |-> IsProvingStart(m), step3 |-> IsProofGenerated(m),
     step4 |-> IsSubmitted(m), wait |-> WaitSecs(m), task |-> TaskId(m)]]

\* events.iter().rev().take(n): the indices of the last n events.
LastN(evs, n) == (IF Len(evs) > n THEN Len(evs) - n + 1 ELSE 1)..Len(evs)

\* The first element a reverse scan meets: the greatest index.
Latest(S) == CHOOSE i \in S : \A j \in S : j <= i

\* ------------------------------------------------------------------- state
VARIABLES
  events,                    \* self.events, appended to by the event source
  clock,                     \* Instant::now(), in whole seconds
  sampler_peak,              \* the peak the resource sampler reports next
  tick,
  current_task,
  system_metrics,
  zkvm_metrics,
  accumulated_runtime_secs,
  step2_start_time,
  last_submission_timestamp,
  task_fetch_info,
  waiting_start_info,
  fetching_state,
  current_prover_state,
  dirty,                     \* an event was appended since the last update()
  drifted,                   \* the clock moved while the last update() ran
  fetching_before,           \* fetching_state when the last update() began
  fetch_info_before          \* task_fetch_info when the last update() began

snapshot == <<tick, current_task, system_metrics, zkvm_metrics, accumulated_runtime_secs,
              step2_start_time, last_submission_timestamp, task_fetch_info,
              waiting_start_info, fetching_state, current_prover_state>>
vars == <<events, clock, sampler_peak, tick, current_task, system_metrics, zkvm_metrics,
          accumulated_runtime_secs, step2_start_time, last_submission_timestamp,
          task_fetch_info, waiting_start_info, fetching_state, current_prover_state,
          dirty, drifted, fetching_before, fetch_info_before>>

\* The fields of DashboardState the event-driven updaters read and write.
Fields ==
  [current_task |-> current_task,
   zkvm_metrics |-> zkvm_metrics,
   accumulated_runtime_secs |-> accumulated_runtime_secs,
   step2_start_time |-> step2_start_time,
   last_submission_timestamp |-> last_submission_timestamp,
   task_fetch_info |-> task_fetch_info,
   waiting_start_info |-> waiting_start_info,
   fetching_state |-> fetching_state,
   current_prover_state |-> current_prover_state]

\* The events of the history that are not the other workers' fillers.
Signals(evs) == Cardinality({i \in 1..Len(evs) : evs[i].msg # Filler.msg})

\* ---------------------------------------------------------------- updaters
\* update_current_task: the identifier of the latest Prover or TaskFetcher
\* event among the last 20 that yields one; None when there is none.
UpdateCurrentTask(evs) ==
  LET hits == {i \in LastN(evs, TaskWindow) :
                 /\ evs[i].worker \in {"Prover", "TaskFetcher"}
                 /\ IsSome(Parsed[evs[i].msg].task)}
  IN IF hits = {} THEN None ELSE Parsed[evs[Latest(hits)].msg].task

\* SystemMetrics::update(sysinfo, previous_peak, previous_metrics): the
\* external resource sampler; it returns the peak it measured.
SystemMetricsUpdate(sampled, previous_peak, previous_metrics) ==
  [peak_ram_bytes |-> sampled]

\* A count that takes the "Step 1 of 4" progress marker for a fetched task.
CountsAsFetchWithStep1(e) ==
  /\ e.event_type = "Success"
  /\ ~Parsed[e.msg].rate_limited
  /\ ~Parsed[e.msg].retrying

\* A count that takes any TaskFetcher event for a fetched task.
CountsAsFetchAnyType(e) ==
  /\ ~Parsed[e.msg].rate_limited
  /\ ~Parsed[e.msg].retrying
  /\ ~Parsed[e.msg].step1

\* A TaskFetcher event that update_zkvm_metrics counts as a fetched task.
CountsAsFetch(e) ==
  /\ e.event_type = "Success"
  /\ ~Parsed[e.msg].rate_limited
  /\ ~Parsed[e.msg].retrying
  /\ ~Parsed[e.msg].step1

\* One iteration of update_zkvm_metrics' loop over the whole history.  `st`
\* holds the locals and the fields the loop writes.  A call reads the clock
\* at `now`; with `drift` its reads are strictly increasing within the
\* second, so that a timer started earlier has run for a positive time.
ZkvmStep(st, e, now, drift) ==
  LET m == Parsed[e.msg]
  IN CASE e.worker = "TaskFetcher" ->
            IF CountsAsFetch(e)
            THEN [st EXCEPT !.tasks_fetched = @ + 1]
            ELSE st
       [] e.worker = "Prover" ->
            IF e.event_type = "Success"
            THEN IF m.step2
                 THEN [st EXCEPT !.step2_start_time = Some(now)]
                 ELSE IF m.step3
                 THEN IF IsSome(st.step2_start_time)
                      THEN LET duration == now - Unwrap(st.step2_start_time)
                           IN IF duration > 0 \/ drift
                              THEN [st EXCEPT !.step2_start_time = None,
                                              !.accumulated_runtime_secs = @ + duration,
                                              !.last_status = "Proved"]
                              ELSE [st EXCEPT !.step2_start_time = None]
                      ELSE st
                 ELSE st
            ELSE IF e.event_type = "Error"
                 THEN [st EXCEPT !.last_status = "Proof Failed"]
                 ELSE st
       [] e.worker = "ProofSubmitter" ->
            IF e.event_type = "Success" /\ m.step4
            THEN [st EXCEPT !.tasks_submitted = @ + 1,
                            !.last_status = "Success",
                            !.last_submission_timestamp = Some(e.timestamp)]
            ELSE IF e.event_type = "Error"
                 THEN [st EXCEPT !.last_status = "Submit Failed"]
                 ELSE st

RECURSIVE ZkvmLoop(_, _, _, _, _)
ZkvmLoop(evs, i, st, now, drift) ==
  IF i > Len(evs) THEN st
  ELSE ZkvmLoop(evs, i + 1, ZkvmStep(st, evs[i], now, drift), now, drift)

\* update_zkvm_metrics: the fields it leaves, zkvm_metrics among them.
UpdateZkvmMetrics(evs, acc, step2, last_sub, now, drift) ==
  LET st == ZkvmLoop(evs, 1,
                     [tasks_fetched |-> 0, tasks_submitted |-> 0, last_status |-> "None",
                      step2_start_time |-> step2, accumulated_runtime_secs |-> acc,
                      last_submission_timestamp |-> last_sub],
                     now, drift)
      total_points == st.tasks_submitted * PointsPerSubmission
  IN [zkvm_metrics |->
        [tasks_executed |-> IF st.tasks_submitted >= st.tasks_fetched
                            THEN st.tasks_submitted ELSE st.tasks_fetched,
         tasks_proved |-> st.tasks_submitted,
         zkvm_runtime_secs |-> st.accumulated_runtime_secs,
         last_task_status |-> st.last_status,
         total_points |-> total_points],
      accumulated_runtime_secs |-> st.accumulated_runtime_secs,
      step2_start_time |-> st.step2_start_time,
      last_submission_timestamp |-> st.last_submission_timestamp]

\* u64::saturating_sub
SaturatingSub(a, b) == IF a >= b THEN a - b ELSE 0

\* A tracker that takes every message for a new waiting period.
IsSameMessageNever(waiting, original_wait_secs) == FALSE

\* A tracker that keeps its first waiting period whatever is declared later.
IsSameMessageOnceSet(waiting, original_wait_secs) == IsSome(waiting)

\* Whether the declared duration is the one of the tracked waiting period.
IsSameMessage(waiting, original_wait_secs) ==
  IF IsSome(waiting) THEN Unwrap(waiting)[2] = original_wait_secs ELSE FALSE

\* A default that forgets the tracked waiting period.
NoRecentBackoffClearing(waiting) ==
  [waiting_start_info |-> None,
   task_fetch_info |-> [backoff_duration_secs |-> 0,
                        time_since_last_fetch_secs |-> 0,
                        can_fetch_now |-> TRUE]]

\* "No recent rate limiting, assume we can fetch": the default published
\* when the loop found nothing; waiting_start_info is not touched.
NoRecentBackoff(waiting) ==
  [waiting_start_info |-> waiting,
   task_fetch_info |-> [backoff_duration_secs |-> 0,
                        time_since_last_fetch_secs |-> 0,
                        can_fetch_now |-> TRUE]]

\* update_task_fetch_info: waiting_start_info and task_fetch_info after it.
UpdateTaskFetchInfo(evs, waiting, now) ==
  LET hits == {i \in LastN(evs, BackoffWindow) :
                 /\ evs[i].worker = "TaskFetcher"
                 /\ IsSome(Parsed[evs[i].msg].wait)}
  IN IF hits = {}
     THEN NoRecentBackoff(waiting)
     ELSE LET original_wait_secs == Unwrap(Parsed[evs[Latest(hits)].msg].wait)
              w == IF IsSameMessage(waiting, original_wait_secs)
                   THEN Unwrap(waiting)
                   ELSE <<now, original_wait_secs>>
              elapsed_secs == now - w[1]
              remaining_secs == SaturatingSub(w[2], elapsed_secs)
          IN [waiting_start_info |-> Some(w),
              task_fetch_info |-> [backoff_duration_secs |-> w[2],
                                   time_since_last_fetch_secs |-> elapsed_secs,
                                   can_fetch_now |-> remaining_secs = 0]]

\* A test that takes the "Step 1 of 4" marker for a concluded fetch too.
IsTerminalWithStep1(e) ==
  /\ e.worker = "TaskFetcher"
  /\ e.event_type \in {"Success", "Error"}

\* A TaskFetcher Success or Error that is not the "Step 1 of 4" marker.
IsTerminal(e) ==
  /\ e.worker = "TaskFetcher"
  /\ e.event_type \in {"Success", "Error"}
  /\ ~Parsed[e.msg].step1

\* A guard that lets the marker start a fetch over while one is Active.
NotAlreadyActiveAlways(state) == TRUE

\* !matches!(self.fetching_state(), FetchingState::Active { .. })
NotAlreadyActive(state) == state.kind # "Active"

\* update_fetching_state
UpdateFetchingState(evs, state, now) ==
  IF \E i \in LastN(evs, TerminalWindow) : IsTerminal(evs[i])
  THEN [kind |-> "Idle"]
  ELSE IF /\ NotAlreadyActive(state)
          /\ \E i \in LastN(evs, RequestWindow) :
               evs[i].worker = "TaskFetcher" /\ Parsed[evs[i].msg].requesting
       THEN [kind |-> "Active", started_at |-> now]
       ELSE IF state.kind = "Active" /\ now - state.started_at > FetchTimeoutSecs
            THEN [kind |-> "Timeout"]
            ELSE state

\* A tracker that falls back to the initial state when it finds nothing.
UpdateProverStateResetting(evs, state) ==
  LET hits == {i \in LastN(evs, StateWindow) :
                 evs[i].event_type = "StateChange" /\ IsSome(evs[i].prover_state)}
  IN IF hits = {} THEN "Waiting" ELSE Unwrap(evs[Latest(hits)].prover_state)

\* update_prover_state
UpdateProverState(evs, state) ==
  LET hits == {i \in LastN(evs, StateWindow) :
                 evs[i].event_type = "StateChange" /\ IsSome(evs[i].prover_state)}
  IN IF hits = {} THEN state ELSE Unwrap(evs[Latest(hits)].prover_state)

\* The updaters as update() calls them: each takes the fields of
\* DashboardState and leaves them with its own ones rewritten.
ApplyCurrentTask(s, evs, now) ==
  [s EXCEPT !.current_task = UpdateCurrentTask(evs)]

ApplyZkvmMetrics(s, evs, now) ==
  LET z == UpdateZkvmMetrics(evs, s.accumulated_runtime_secs, s.step2_start_time,
                             s.last_submission_timestamp, now, FALSE)
  IN [s EXCEPT !.zkvm_metrics = z.zkvm_metrics,
               !.accumulated_runtime_secs = z.accumulated_runtime_secs,
               !.step2_start_time = z.step2_start_time,
               !.last_submission_timestamp = z.last_submission_timestamp]

ApplyTaskFetchInfo(s, evs, now) ==
  LET f == UpdateTaskFetchInfo(evs, s.waiting_start_info, now)
  IN [s EXCEPT !.waiting_start_info = f.waiting_start_info,
               !.task_fetch_info = f.task_fetch_info]

\* A fetch tracker that holds its state while the published backoff
\* forbids a fetch.
ApplyFetchingStateAfterBackoff(s, evs, now) ==
  IF s.task_fetch_info.can_fetch_now
  THEN [s EXCEPT !.fetching_state = UpdateFetchingState(evs, s.fetching_state, now)]
  ELSE s

ApplyFetchingState(s, evs, now) ==
  [s EXCEPT !.fetching_state = UpdateFetchingState(evs, s.fetching_state, now)]

ApplyProverState(s, evs, now) ==
  [s EXCEPT !.current_prover_state = UpdateProverState(evs, s.current_prover_state)]

Apply(updater, s, evs, now) ==
  CASE updater = "update_current_task" -> ApplyCurrentTask(s, evs, now)
    [] updater = "update_zkvm_metrics" -> ApplyZkvmMetrics(s, evs, now)
    [] updater = "update_task_fetch_info" -> ApplyTaskFetchInfo(s, evs, now)
    [] updater = "update_fetching_state" -> ApplyFetchingState(s, evs, now)
    [] updater = "update_prover_state" -> ApplyProverState(s, evs, now)

\* The order update() calls them in.
UpdateOrder ==
  <<"update_current_task", "update_zkvm_metrics", "update_task_fetch_info",
    "update_fetching_state", "update_prover_state">>

RECURSIVE RunInOrder(_, _, _, _)
RunInOrder(order, s, evs, now) ==
  IF order = <<>> THEN s
  ELSE RunInOrder(Tail(order), Apply(Head(order), s, evs, now), evs, now)

\* The snapshots the updaters of `remaining` can leave, over every order
\* they can be called in.
RECURSIVE RunInEveryOrder(_, _, _, _)
RunInEveryOrder(remaining, s, evs, now) ==
  IF remaining = {} THEN {s}
  ELSE UNION {RunInEveryOrder(remaining \ {u}, Apply(u, s, evs, now), evs, now) :
                u \in remaining}

\* A cycle that counts itself twice.
NextTickTwice(t) == t + 2

\* tick += 1
NextTick(t) == t + 1

\* ----------------------------------------------------------------- actions
\* DashboardState after construction: nothing tracked, no event seen.
Init ==
  /\ events = <<>>
  /\ clock = 0
  /\ sampler_peak = 0
  /\ tick = 0
  /\ current_task = None
  /\ system_metrics = [peak_ram_bytes |-> 0]
  /\ zkvm_metrics = [tasks_executed |-> 0, tasks_proved |-> 0, zkvm_runtime_secs |-> 0,
                     last_task_status |-> "", total_points |-> 0]
  /\ accumulated_runtime_secs = 0
  /\ step2_start_time = None
  /\ last_submission_timestamp = None
  /\ task_fetch_info = [backoff_duration_secs |-> 0, time_since_last_fetch_secs |-> 0,
                        can_fetch_now |-> TRUE]
  /\ waiting_start_info = None
  /\ fetching_state = [kind |-> "Idle"]
  /\ current_prover_state = "Waiting"
  /\ dirty = FALSE
  /\ drifted = FALSE
  /\ fetching_before = [kind |-> "Idle"]
  /\ fetch_info_before = [backoff_duration_secs |-> 0, time_since_last_fetch_secs |-> 0,
                          can_fetch_now |-> TRUE]

\* DashboardState::update(), one whole cycle, called d seconds after the
\* previous one began; `drift` tells whether the clock moves while it runs.
Update(steps, drifts) ==
  \E d \in steps, drift \in drifts :
    /\ tick < MaxTick
    /\ clock + d <= MaxClock
    /\ clock' = clock + d
    /\ tick' = NextTick(tick)
    /\ current_task' = UpdateCurrentTask(events)
    /\ system_metrics' =
         SystemMetricsUpdate(sampler_peak, system_metrics.peak_ram_bytes, system_metrics)
    /\ LET z == UpdateZkvmMetrics(events, accumulated_runtime_secs, step2_start_time,
                                  last_submission_timestamp, clock', drift)
       IN /\ zkvm_metrics' = z.zkvm_metrics
          /\ accumulated_runtime_secs' = z.accumulated_runtime_secs
          /\ step2_start_time' = z.step2_start_time
          /\ last_submission_timestamp' = z.last_submission_timestamp
    /\ LET f == UpdateTaskFetchInfo(events, waiting_start_info, clock')
       IN /\ waiting_start_info' = f.waiting_start_info
          /\ task_fetch_info' = f.task_fetch_info
    /\ fetching_state' = UpdateFetchingState(events, fetching_state, clock')
    /\ current_prover_state' = UpdateProverState(events, current_prover_state)
    /\ dirty' = FALSE
    /\ drifted' = drift
    /\ fetching_before' = fetching_state
    /\ fetch_info_before' = task_fetch_info
    /\ UNCHANGED <<events, sampler_peak>>

\* The event source appends one event of a worker.
Emit(pool) ==
  /\ Signals(events) < MaxSignal
  /\ \E e \in pool : events' = Append(events, Stamp(e, Len(events) + 1))
  /\ dirty' = TRUE
  /\ UNCHANGED <<clock, sampler_peak, drifted, fetching_before, fetch_info_before>>
  /\ UNCHANGED snapshot

\* The event source appends one event to a short history.
EmitFew(pool) ==
  /\ Len(events) < MaxCommuteEvents
  /\ \E e \in pool : events' = Append(events, Stamp(e, Len(events) + 1))
  /\ dirty' = TRUE
  /\ UNCHANGED <<clock, sampler_peak, drifted, fetching_before, fetch_info_before>>
  /\ UNCHANGED snapshot

\* The other workers append a burst of n events between two ticks.
Burst(sizes, max_events) ==
  /\ \E n \in sizes :
       /\ Len(events) + n <= max_events
       /\ events' = events \o [k \in 1..n |-> Stamp(Filler, Len(events) + k)]
  /\ dirty' = TRUE
  /\ UNCHANGED <<clock, sampler_peak, drifted, fetching_before, fetch_info_before>>
  /\ UNCHANGED snapshot

\* The process's memory use changes: the sampler will report another peak.
Resample ==
  /\ \E p \in 0..MaxRam : p # sampler_peak /\ sampler_peak' = p
  /\ UNCHANGED <<events, clock, dirty, drifted, fetching_before, fetch_info_before>>
  /\ UNCHANGED snapshot

\* ---------------------------------------------------------- specifications
NextRuntime == Update({0, 1, 2}, BOOLEAN) \/ Emit(RuntimePool)
SpecRuntime == Init /\ [][NextRuntime]_vars

NextTotals == Update({1}, {FALSE}) \/ Emit(TotalsPool) \/ Burst({TaskWindow}, MaxEvents)
SpecTotals == Init /\ [][NextTotals]_vars

NextBackoff == Update({0, 1}, {FALSE}) \/ Emit(BackoffPool) \/ Burst({BackoffWindow - 1}, MaxEvents)
SpecBackoff == Init /\ [][NextBackoff]_vars

NextFetch == Update({0, FetchTimeoutSecs, FetchTimeoutSecs + 1}, {FALSE}) \/ Emit(FetchPool)
               \/ Burst({TerminalWindow - 1}, MaxShortEvents)
               \/ Burst({RequestWindow - 1}, MaxFetchEvents)
SpecFetch == Init /\ [][NextFetch]_vars

NextSampler == Update({0, 1}, BOOLEAN) \/ Resample \/ Emit({Garbage("Info")})
SpecSampler == Init /\ [][NextSampler]_vars

NextMiss == Update({1}, {FALSE}) \/ Emit(MissPool) \/ Burst({BackoffWindow - 1}, MaxEvents)
SpecMiss == Init /\ [][NextMiss]_vars

NextTask == Update({1}, {FALSE}) \/ Emit(TaskPool) \/ Burst({TaskWindow - 1}, MaxEvents)
SpecTask == Init /\ [][NextTask]_vars

NextCommute == Update({0, 1}, {FALSE}) \/ EmitFew(CommutePool)
SpecCommute == Init /\ [][NextCommute]_vars

NextProver == Update({1}, {FALSE}) \/ Emit(ProverPool)
                \/ Burst({StateWindow - 1}, MaxFetchEvents)
SpecProver == Init /\ [][NextProver]_vars

NextMixed == Update({1}, {FALSE}) \/ Emit(MixedPool) \/ Burst({BackoffWindow - 1}, MaxEvents)
SpecMixed == Init /\ [][NextMixed]_vars

\* ------------------------------------------------------------------ claims
\* A step of update(): the event source and the sampler stand still.
IsUpdate == events' = events /\ sampler_peak' = sampler_peak

\* The last action was an update(): the snapshot is that of the history.
Fresh == tick > 0 /\ ~dirty

ProverSuccess(e) == e.worker = "Prover" /\ e.event_type = "Success"
Step2At(i) == ProverSuccess(events[i]) /\ IsProvingStart(events[i].msg)
Step3At(i) == ProverSuccess(events[i]) /\ IsProofGenerated(events[i].msg)

\* C1 (as claimed): with the history unchanged and the clock at the same
\* instant, a second update() leaves zkvm_metrics, current_task and
\* fetching_state as the first one left them.
C1_IdempotentRecompute ==
  [][(IsUpdate /\ Fresh /\ ~drifted /\ ~drifted' /\ clock' = clock)
       => /\ zkvm_metrics' = zkvm_metrics
          /\ current_task' = current_task
          /\ fetching_state' = fetching_state]_vars

\* C2: every update() raises tick by exactly one, and the accumulated
\* runtime, which update() publishes as zkvm_runtime_secs, never decreases.
C2_TickAndRuntimeMonotone ==
  [][/\ IsUpdate => tick' = tick + 1
     /\ IsUpdate => zkvm_metrics'.zkvm_runtime_secs = accumulated_runtime_secs'
     /\ ~IsUpdate => tick' = tick
     /\ accumulated_runtime_secs' >= accumulated_runtime_secs]_vars

\* Three cycles have run, and the runtime has grown on the way.
C2_Witness ==
  /\ tick = 3
  /\ accumulated_runtime_secs > 0
  /\ zkvm_metrics.zkvm_runtime_secs = accumulated_runtime_secs

\* C3 (as claimed): peak_ram never decreases, whatever the sampler reports.
C3_PeakRamMonotone ==
  [][system_metrics'.peak_ram_bytes >= system_metrics.peak_ram_bytes]_vars

\* C9 (as claimed): an update() that sees no new event leaves the
\* accumulated runtime as it was, however far the clock has moved.
C9_NoDoubleCounting ==
  [][(IsUpdate /\ Fresh) => accumulated_runtime_secs' = accumulated_runtime_secs]_vars

\* The history holds one "Step 2" and, after it, one "Step 3" as its last
\* event; the first update() has seen the "Step 2" and left its timer open.
C10_Case ==
  /\ tick = 1
  /\ dirty
  /\ IsSome(step2_start_time)
  /\ Len(events) >= 2
  /\ Step3At(Len(events))
  /\ \E i \in 1..(Len(events) - 1) :
       /\ Step2At(i)
       /\ \A j \in 1..(Len(events) - 1) : j # i => events[j].worker # "Prover"

\* C10 (as claimed): the update() that first sees the "Step 3" adds the time
\* since the update() that first saw the "Step 2", and publishes "Proved".
C10_ProvingDurationMeasured ==
  [][(IsUpdate /\ C10_Case /\ clock' > Unwrap(step2_start_time))
       => /\ accumulated_runtime_secs' =
               accumulated_runtime_secs + (clock' - Unwrap(step2_start_time))
          /\ zkvm_metrics'.last_task_status = "Proved"]_vars

\* The submissions and the fetches of a history, as the claim counts them.
SubmittedIn(evs) ==
  Cardinality({i \in 1..Len(evs) :
                 /\ evs[i].worker = "ProofSubmitter"
                 /\ evs[i].event_type = "Success"
                 /\ Contains(evs[i].msg, "Step 4 of 4: Proof submitted successfully")})

FetchedIn(evs) ==
  Cardinality({i \in 1..Len(evs) :
                 /\ evs[i].worker = "TaskFetcher"
                 /\ evs[i].event_type = "Success"
                 /\ ~Contains(evs[i].msg, "rate limited")
                 /\ ~Contains(evs[i].msg, "retrying")
                 /\ ~Contains(evs[i].msg, "Step 1 of 4")})

\* C8: after an update() the totals are those of the whole history:
\* tasks_proved the submissions, total_points 300 for each of them,
\* tasks_executed the larger of submissions and fetches.
C8_TotalsOfWholeHistory ==
  Fresh =>
    LET submitted == SubmittedIn(events)
        fetched == FetchedIn(events)
    IN /\ zkvm_metrics.tasks_proved = submitted
       /\ zkvm_metrics.total_points = submitted * 300
       /\ zkvm_metrics.tasks_executed = IF submitted >= fetched THEN submitted ELSE fetched

\* Three submissions, all of them older than the last 20 events, after a
\* second update() of the same history.
C8_Witness ==
  /\ tick >= 2
  /\ ~dirty
  /\ Len(events) = 23
  /\ \A i \in 4..23 : events[i] = Stamp(Filler, i)
  /\ SubmittedIn(events) = 3
  /\ zkvm_metrics.tasks_proved = 3
  /\ zkvm_metrics.total_points = 900

\* The duration declared by the most recent TaskFetcher message among the
\* last 20 events that matches "ready for next task (<seconds>)".
DeclaredWait(evs) ==
  LET matching == {i \in 1..Len(evs) :
                     /\ Len(evs) - i < 20
                     /\ evs[i].worker = "TaskFetcher"
                     /\ IsSome(Parsed[evs[i].msg].wait)}
  IN IF matching = {} THEN None
     ELSE Parsed[evs[CHOOSE i \in matching : \A j \in matching : j <= i].msg].wait

\* C5: while the declared duration D stays the tracked one, update() keeps
\* the anchor, publishes D and the time since the anchor, and allows a fetch
\* exactly when that time has reached D.
C5_BackoffContinuity ==
  [][(IsUpdate /\ IsSome(DeclaredWait(events)))
       => LET D == Unwrap(DeclaredWait(events))
          IN /\ task_fetch_info'.backoff_duration_secs = D
             /\ (IsSome(waiting_start_info) /\ Unwrap(waiting_start_info)[2] = D)
                  => /\ waiting_start_info' = waiting_start_info
                     /\ task_fetch_info'.time_since_last_fetch_secs =
                          clock' - Unwrap(waiting_start_info)[1]
             /\ task_fetch_info'.can_fetch_now =
                  (task_fetch_info'.time_since_last_fetch_secs >= D)]_vars

\* A third update() of a 2-second backoff, two seconds after the first.
C5_Witness ==
  /\ tick = 3
  /\ ~dirty
  /\ DeclaredWait(events) = Some(2)
  /\ waiting_start_info = Some(<<clock - 2, 2>>)
  /\ task_fetch_info = [backoff_duration_secs |-> 2, time_since_last_fetch_secs |-> 2,
                        can_fetch_now |-> TRUE]

\* C6: when the declared duration differs from the tracked one, or none is
\* tracked, update() anchors a new period at the present instant and
\* publishes the new duration with no time elapsed.
C6_BackoffResetOnChange ==
  [][(/\ IsUpdate
      /\ IsSome(DeclaredWait(events))
      /\ \/ waiting_start_info = None
         \/ Unwrap(waiting_start_info)[2] # Unwrap(DeclaredWait(events)))
       => /\ waiting_start_info' = Some(<<clock', Unwrap(DeclaredWait(events))>>)
          /\ task_fetch_info'.backoff_duration_secs = Unwrap(DeclaredWait(events))
          /\ task_fetch_info'.time_since_last_fetch_secs = 0]_vars

\* A 1-second backoff declared after a 2-second one, anchored at its own
\* update(), one second into the run.
C6_Witness ==
  /\ tick = 2
  /\ ~dirty
  /\ Len(events) = 2
  /\ WaitSecs(events[1].msg) = Some(2)
  /\ WaitSecs(events[2].msg) = Some(1)
  /\ events[2].worker = "TaskFetcher"
  /\ clock = 1
  /\ waiting_start_info = Some(<<1, 1>>)
  /\ task_fetch_info = [backoff_duration_secs |-> 1, time_since_last_fetch_secs |-> 0,
                        can_fetch_now |-> FALSE]

\* No fetch has concluded: the history holds no TaskFetcher Success or Error
\* other than the "Step 1 of 4" progress marker.
NoTerminalIn(evs) ==
  \A i \in 1..Len(evs) :
    ~(/\ evs[i].worker = "TaskFetcher"
      /\ evs[i].event_type \in {"Success", "Error"}
      /\ ~Parsed[evs[i].msg].step1)

\* update() sees the "requesting" marker: it is among the last 10 events.
RequestSeenIn(evs) ==
  \E i \in 1..Len(evs) :
    /\ Len(evs) - i < 10
    /\ evs[i].worker = "TaskFetcher"
    /\ Parsed[evs[i].msg].requesting

\* The latest event is a TaskFetcher Success that is not "Step 1".
FetchSucceededLast(evs) ==
  /\ Len(evs) > 0
  /\ evs[Len(evs)].worker = "TaskFetcher"
  /\ evs[Len(evs)].event_type = "Success"
  /\ ~Parsed[evs[Len(evs)].msg].step1

\* C7: from Idle, the marker with no concluded fetch gives Active, started
\* at this update(); Active for more than 5 seconds with no concluded fetch
\* gives Timeout; a TaskFetcher Success that is not "Step 1" gives Idle.
C7_FetchStateMachine ==
  [][IsUpdate =>
       /\ (fetching_state.kind = "Idle" /\ RequestSeenIn(events) /\ NoTerminalIn(events))
            => fetching_state' = [kind |-> "Active", started_at |-> clock']
       /\ (/\ fetching_state.kind = "Active"
           /\ clock' - fetching_state.started_at > 5
           /\ NoTerminalIn(events))
            => fetching_state' = [kind |-> "Timeout"]
       /\ FetchSucceededLast(events) => fetching_state' = [kind |-> "Idle"]]_vars

\* The scenario's end: the third update(), six seconds after the first made
\* the fetch Active, finds the fetch timed out and a Success appended.
C7_Witness ==
  /\ tick = 3
  /\ ~dirty
  /\ clock = 6
  /\ Len(events) = 2
  /\ events[1].worker = "TaskFetcher" /\ IsRequesting(events[1].msg)
  /\ FetchSucceededLast(events)
  /\ fetching_before = [kind |-> "Timeout"]
  /\ fetching_state = [kind |-> "Idle"]

\* The tracked fields an update() at the present instant would publish for
\* the history evs.
TrackedAfter(evs) ==
  LET z == UpdateZkvmMetrics(evs, accumulated_runtime_secs, step2_start_time,
                             last_submission_timestamp, clock, FALSE)
      f == UpdateTaskFetchInfo(evs, waiting_start_info, clock)
  IN [zkvm_metrics |-> z.zkvm_metrics,
      fetching_state |-> UpdateFetchingState(evs, fetching_state, clock),
      task_fetch_info |-> f.task_fetch_info,
      waiting_start_info |-> f.waiting_start_info,
      current_task |-> UpdateCurrentTask(evs),
      prover_state |-> UpdateProverState(evs, current_prover_state)]

WithGarbage(evs, event_type) == Append(evs, Stamp(Garbage(event_type), Len(evs) + 1))

RecentFetcherEvents(evs, n) ==
  LET fetcher == {i \in 1..Len(evs) : evs[i].worker = "TaskFetcher"}
  IN {i \in fetcher : Cardinality({j \in fetcher : j > i}) < n}

\* A concluded fetch, as the rule words it: a TaskFetcher Success or Error
\* that is not the "Step 1 of 4" marker.
ConcludedFetch(e) ==
  /\ e.worker = "TaskFetcher"
  /\ e.event_type \in {"Success", "Error"}
  /\ ~Contains(e.msg, "Step 1 of 4")

\* C11 (as claimed): when one of the 5 most recent TaskFetcher events is a
\* concluded fetch, update() forces fetching_state to Idle, whatever the
\* other workers appended since and whatever the state was.
C11_TerminalAmongFetcherEvents ==
  [][(IsUpdate /\ \E i \in RecentFetcherEvents(events, 5) : ConcludedFetch(events[i]))
       => fetching_state' = [kind |-> "Idle"]]_vars

\* C12: while Active, an update() that sees the marker again and no
\* concluded fetch keeps started_at (until the timeout takes the fetch);
\* from Active the next state is the same Active, Timeout only after more
\* than 5 seconds, or Idle only when the history holds a concluded fetch.
C12_ActiveKeepsStart ==
  [][(IsUpdate /\ fetching_state.kind = "Active")
       => /\ (RequestSeenIn(events) /\ NoTerminalIn(events))
               => fetching_state' =
                    IF clock' - fetching_state.started_at > 5
                    THEN [kind |-> "Timeout"]
                    ELSE fetching_state
          /\ \/ fetching_state' = fetching_state
             \/ /\ fetching_state' = [kind |-> "Timeout"]
                /\ clock' - fetching_state.started_at > 5
             \/ /\ fetching_state' = [kind |-> "Idle"]
                /\ ~NoTerminalIn(events)]_vars

\* A fetch made Active at 0 is still Active{0} after the update() at 5 that
\* found a second marker appended.
C12_Witness ==
  /\ tick = 2
  /\ ~dirty
  /\ clock = 5
  /\ Len(events) = 2
  /\ \A i \in 1..2 : events[i].worker = "TaskFetcher" /\ IsRequesting(events[i].msg)
  /\ fetching_before = [kind |-> "Active", started_at |-> 0]
  /\ fetching_state = [kind |-> "Active", started_at |-> 0]

\* The windows of the fetch tracker hold no qualifying TaskFetcher event:
\* no concluded fetch among the last 5 events, no marker among the last 10.
FetchWindowExhausted(evs) ==
  /\ \A i \in 1..Len(evs) : Len(evs) - i < 5 => ~ConcludedFetch(evs[i])
  /\ ~RequestSeenIn(evs)

\* C13 (as claimed): when the look-back window holds no qualifying
\* TaskFetcher event, update() leaves fetching_state at the default Idle,
\* whatever it was before.
C13_ExhaustedWindowIdle ==
  [][(IsUpdate /\ FetchWindowExhausted(events)) => fetching_state' = [kind |-> "Idle"]]_vars

\* C20 (as claimed): with the marker in the last 10 events and no concluded
\* fetch, a fetch that has timed out stays at Timeout in every later
\* update(); the marker starts no second Active period.
C20_TimeoutIsFinal ==
  [][(/\ IsUpdate
      /\ Fresh
      /\ fetching_state = [kind |-> "Timeout"]
      /\ RequestSeenIn(events)
      /\ NoTerminalIn(events))
       => fetching_state' = [kind |-> "Timeout"]]_vars

\* The duration a message declares, as the claim words it: the text between
\* the first '(' and a later first ')' of a "ready for next task" message,
\* when that text is a number.
ClaimedWait(msg) ==
  LET open == Find(msg, "(")
      close == Find(msg, ")")
      text == SubSeq(msg, open + 1, close - 1)
  IN IF /\ Contains(msg, "ready for next task")
        /\ open # 0 /\ close # 0 /\ open < close
        /\ Len(text) > 0
        /\ \A k \in 1..Len(text) : SubSeq(text, k, k) \in Digits
        /\ FitsU64(text)
     THEN Some(DecimalValue(text))
     ELSE None

Claimed == [m \in Texts |-> ClaimedWait(m)]

\* The TaskFetcher events among the last 20 that declare a duration.
Declaring(evs) ==
  {i \in 1..Len(evs) :
     /\ Len(evs) - i < 20
     /\ evs[i].worker = "TaskFetcher"
     /\ IsSome(Claimed[evs[i].msg])}

DefaultFetchInfo ==
  [backoff_duration_secs |-> 0, time_since_last_fetch_secs |-> 0, can_fetch_now |-> TRUE]

\* C14: update() skips the messages that declare no duration and publishes
\* the duration of the most recent one among the last 20 events that does;
\* when none does, it publishes {0, 0, true}.
C14_PatternMissAndDefault ==
  [][IsUpdate =>
       IF Declaring(events) = {}
       THEN task_fetch_info' = DefaultFetchInfo
       ELSE task_fetch_info'.backoff_duration_secs =
              Unwrap(Claimed[events[Latest(Declaring(events))].msg])]_vars

\* A well-formed 2-second message followed by two malformed ones: update()
\* has skipped both and published the 2 seconds.
C14_Witness ==
  /\ tick > 0
  /\ ~dirty
  /\ Len(events) = 3
  /\ Declaring(events) = {1}
  /\ \A i \in 2..3 : events[i].worker = "TaskFetcher"
                        /\ Contains(events[i].msg, "ready for next task")
  /\ events[2].msg # events[3].msg
  /\ task_fetch_info.backoff_duration_secs = 2

\* The task identifier a message contains, as the claim words it: "Task-"
\* followed by a run of non-whitespace characters, up to the first
\* whitespace or the end of the message.
ClaimedTask(msg) ==
  LET starts == {p \in 1..(Len(msg) - 5) :
                   /\ SubSeq(msg, p, p + 4) = "Task-"
                   /\ SubSeq(msg, p + 5, p + 5) \notin {" ", "\t", "\n", "\r"}}
  IN IF starts = {} THEN None
     ELSE LET p == CHOOSE q \in starts : \A r \in starts : q <= r
              stops == {k \in (p + 5)..Len(msg) :
                          SubSeq(msg, k, k) \in {" ", "\t", "\n", "\r"}}
              last == IF stops = {} THEN Len(msg)
                      ELSE (CHOOSE k \in stops : \A j \in stops : k <= j) - 1
          IN Some(SubSeq(msg, p, last))

ClaimedTasks == [m \in Texts |-> ClaimedTask(m)]

\* The Prover and TaskFetcher events among the last 20 that name a task.
NamingTask(evs) ==
  {i \in 1..Len(evs) :
     /\ Len(evs) - i < 20
     /\ evs[i].worker \in {"Prover", "TaskFetcher"}
     /\ IsSome(ClaimedTasks[evs[i].msg])}

\* C15 (as claimed): after an update(), current_task is the identifier of
\* the most recent Prover or TaskFetcher event among the last 20 whose
\* message contains one, and none when there is no such event.
C15_CurrentTaskExtracted ==
  Fresh =>
    current_task = IF NamingTask(events) = {} THEN None
                   ELSE ClaimedTasks[events[Latest(NamingTask(events))].msg]

\* The five event-driven updaters.
Updaters == {UpdateOrder[k] : k \in 1..Len(UpdateOrder)}

\* The fields each updater owns.
OwnFields(updater) ==
  CASE updater = "update_current_task" -> {"current_task"}
    [] updater = "update_zkvm_metrics" ->
         {"zkvm_metrics", "accumulated_runtime_secs", "step2_start_time",
          "last_submission_timestamp"}
    [] updater = "update_task_fetch_info" -> {"task_fetch_info", "waiting_start_info"}
    [] updater = "update_fetching_state" -> {"fetching_state"}
    [] updater = "update_prover_state" -> {"current_prover_state"}

\* C16: at one clock reading the five event-driven updaters commute: called
\* in any order they leave the snapshot update() leaves, and each of them
\* writes only its own fields.
C16_UpdatersCommute ==
  [][IsUpdate =>
       LET fixed == RunInOrder(UpdateOrder, Fields, events, clock')
       IN /\ Fields' = fixed
          /\ RunInEveryOrder(Updaters, Fields, events, clock') = {fixed}
          /\ \A u \in Updaters :
               LET after == Apply(u, Fields, events, clock')
               IN \A f \in (DOMAIN Fields) \ OwnFields(u) : after[f] = Fields[f]]_vars

\* An update() in which every updater has published something: a task, a
\* fetched task's count, a backoff, a concluded fetch and a prover state.
C16_Witness ==
  /\ tick > 0
  /\ ~dirty
  /\ Len(events) = 2
  /\ current_task = Some("Task-8")
  /\ zkvm_metrics.tasks_executed = 1
  /\ IsSome(waiting_start_info)
  /\ task_fetch_info.backoff_duration_secs = 2
  /\ fetching_state = [kind |-> "Idle"]
  /\ current_prover_state = "Proving"

\* C17: waiting_start_info changes only in an update() that finds a
\* declared duration other than the tracked one (or none tracked); every
\* other step, the default cycles among them, leaves it alone; a published
\* match carries the duration of waiting_start_info.
C17_AnchorReplacedOnlyOnChange ==
  [][/\ waiting_start_info' # waiting_start_info
          => /\ IsUpdate
             /\ IsSome(DeclaredWait(events))
             /\ \/ waiting_start_info = None
                \/ Unwrap(waiting_start_info)[2] # Unwrap(DeclaredWait(events))
     /\ (IsUpdate /\ IsSome(DeclaredWait(events)))
          => /\ IsSome(waiting_start_info')
             /\ task_fetch_info'.backoff_duration_secs = Unwrap(waiting_start_info')[2]]_vars

\* An update() has published the default while a waiting period is tracked:
\* its message has left the window, the anchor is still there.
C17_Witness ==
  /\ tick >= 2
  /\ ~dirty
  /\ DeclaredWait(events) = None
  /\ task_fetch_info = DefaultFetchInfo
  /\ IsSome(waiting_start_info)

\* C19: a tracked period of duration D whose message left the window (the
\* last cycle published the default) is continued by a later message that
\* declares the same D: the anchor is kept and the elapsed time counts from
\* the first period's start.
C19_SameDurationContinues ==
  [][(/\ IsUpdate
      /\ task_fetch_info = DefaultFetchInfo
      /\ IsSome(waiting_start_info)
      /\ DeclaredWait(events) = Some(Unwrap(waiting_start_info)[2]))
       => /\ waiting_start_info' = waiting_start_info
          /\ task_fetch_info'.backoff_duration_secs = Unwrap(waiting_start_info)[2]
          /\ task_fetch_info'.time_since_last_fetch_secs =
               clock' - Unwrap(waiting_start_info)[1]]_vars

\* Three cycles: a 2-second backoff tracked, the default published once its
\* message had left the window, and a second 2-second message taken up with
\* the first one's anchor, the elapsed time not back at 0.
C19_Witness ==
  /\ tick = 3
  /\ ~dirty
  /\ fetch_info_before = DefaultFetchInfo
  /\ DeclaredWait(events) = Some(2)
  /\ IsSome(waiting_start_info)
  /\ Unwrap(waiting_start_info)[2] = 2
  /\ Unwrap(waiting_start_info)[1] < clock
  /\ task_fetch_info.backoff_duration_secs = 2
  /\ task_fetch_info.time_since_last_fetch_secs = clock - Unwrap(waiting_start_info)[1]

\* The StateChange events among the last 10 that carry a prover state.
CarryingState(evs) ==
  {i \in 1..Len(evs) :
     /\ Len(evs) - i < 10
     /\ evs[i].event_type = "StateChange"
     /\ evs[i].prover_state # None}

\* C18: update() publishes the prover state of the most recent StateChange
\* event among the last 10 that carries one; when there is none the
\* published state stays as it was.
C18_ProverStateTracked ==
  [][IsUpdate =>
       current_prover_state' =
         IF CarryingState(events) = {} THEN current_prover_state
         ELSE events[Latest(CarryingState(events))].prover_state[1]]_vars

\* "Proving" was published, its event has left the last 10, and a further
\* update() has kept "Proving" rather than the initial "Waiting".
C18_Witness ==
  /\ tick >= 2
  /\ ~dirty
  /\ Len(events) = 11
  /\ events[1].event_type = "StateChange"
  /\ events[1].prover_state = Some("Proving")
  /\ CarryingState(events) = {}
  /\ current_prover_state = "Proving"
====
